---- MODULE Spec2Model ----
(***************************************************************************)
(* Model of the tree-rewriting engine of tiny-fusion                       *)
(* (src/common/tests/test_node.rs): the change-tracking wrapper            *)
(* Transformed<T>, the TreeNode trait (apply_children, map_children,       *)
(* transform, transform_down) as implemented for LogicalPlan, and the      *)
(* three optimization rules.                                               *)
(*                                                                         *)
(* A plan is a record tagged with its variant; a Result<Transformed<T>,    *)
(* String> is a record with ok = TRUE (and the flag yes and the node) or   *)
(* ok = FALSE (and the error).  Every traversal returns its result         *)
(* together with the sequence of invocations of the caller's f that it     *)
(* made, in order, each with the position (path from the root) and the     *)
(* argument f was given.                                                   *)
(***************************************************************************)
EXTENDS Integers, Sequences, FiniteSets, TLC

VARIABLES plan, op, closure, f, res, calls

vars == <<plan, op, closure, f, res, calls>>

(* Largest number of nodes of an initial plan. *)
MaxNodes == 5

(***************************************************************************)
(* Expression                                                              *)
(***************************************************************************)
Column(name) == [tag |-> "Column", name |-> name]

Literal(v) == [tag |-> "Literal", value |-> v]

BinaryOp(l, o, r) == [tag |-> "BinaryOp", left |-> l, op |-> o, right |-> r]

(***************************************************************************)
(* LogicalPlan                                                             *)
(***************************************************************************)
TableScan(t, cols) ==
    [tag |-> "TableScan", table_name |-> t, projected_columns |-> cols]

Filter(p, in) == [tag |-> "Filter", predicate |-> p, input |-> in]

Projection(es, in) == [tag |-> "Projection", expressions |-> es, input |-> in]

Join(l, r, jt, on) ==
    [tag |-> "Join", left |-> l, right |-> r, join_type |-> jt, on |-> on]

Limit(n, in) == [tag |-> "Limit", limit |-> n, input |-> in]

Tags == {"TableScan", "Filter", "Projection", "Join", "Limit"}

(***************************************************************************)
(* Transformed<T> and Result                                               *)
(***************************************************************************)
Yes(t) == [ok |-> TRUE, yes |-> TRUE, node |-> t]

No(t) == [ok |-> TRUE, yes |-> FALSE, node |-> t]

Err(e) == [ok |-> FALSE, err |-> e]

into_inner(t) == t.node

was_transformed(t) == t.yes

(***************************************************************************)
(* The values main() builds its plan from, and the small sets the plans    *)
(* of the model are drawn from.                                            *)
(***************************************************************************)
SalaryBound == 50000

IdBound == 1000

RowLimit == 10

Columns == <<"id", "name", "salary">>

table_scan == TableScan("employees", Columns)

pred1 == BinaryOp(Column("salary"), "Gt", Literal(SalaryBound))

pred2 == BinaryOp(Column("id"), "Lt", Literal(IdBound))

AllColumns == <<Column("id"), Column("name"), Column("salary")>>

Reordered == <<Column("name"), Column("id"), Column("salary")>>

WithLiteral == <<Column("id"), Literal(IdBound), Column("name"), Column("salary")>>

Scans == {table_scan}

Predicates == {pred1, pred2}

ExprLists == {AllColumns, Reordered, WithLiteral}

JoinOn == <<<<"id", "id">>>>

RECURSIVE PlansOfSize(_)
PlansOfSize(n) ==
    IF n = 1 THEN Scans
    ELSE LET sub == PlansOfSize(n - 1) IN
         {Filter(p, s) : p \in Predicates, s \in sub}
         \cup {Projection(es, s) : es \in ExprLists, s \in sub}
         \cup {Limit(RowLimit, s) : s \in sub}
         \cup UNION {{Join(l, r, "Inner", JoinOn) :
                          l \in PlansOfSize(a), r \in PlansOfSize(n - 1 - a)} :
                     a \in 1..(n - 2)}

Plans == UNION {PlansOfSize(n) : n \in 1..MaxNodes}

(***************************************************************************)
(* The optimization rules                                                  *)
(***************************************************************************)
(* push_down_limit whose inner fall-through arm hands back the input of    *)
(* the Limit instead of the Limit                                          *)
push_down_limit_drops_limit(p) ==
    IF p.tag = "Limit"
    THEN IF p.input.tag = "Projection"
         THEN Yes(Projection(p.input.expressions, Limit(p.limit, p.input.input)))
         ELSE No(p.input)
    ELSE No(p)

push_down_limit(p) ==
    IF p.tag = "Limit"
    THEN IF p.input.tag = "Projection"
         THEN Yes(Projection(p.input.expressions, Limit(p.limit, p.input.input)))
         ELSE No(p)
    ELSE No(p)

(* filter_map over the expressions: the names of the Column ones, in order *)
expr_columns(expressions) ==
    LET cols == SelectSeq(expressions, LAMBDA e : e.tag = "Column")
    IN  [i \in 1..Len(cols) |-> cols[i].name]

remove_redundant_projection(p) ==
    IF p.tag = "Projection"
    THEN IF p.input.tag = "TableScan"
            /\ expr_columns(p.expressions) = p.input.projected_columns
         THEN Yes(p.input)
         ELSE No(p)
    ELSE No(p)

combine_filters(p) ==
    IF p.tag = "Filter"
    THEN IF p.input.tag = "Filter"
         THEN Yes(Filter(BinaryOp(p.predicate, "And", p.input.predicate),
                         p.input.input))
         ELSE No(p)
    ELSE No(p)

(* the closure of main() that chains the three rules at one node *)
chained_rules(p) ==
    LET step1 == combine_filters(p) IN
    IF ~step1.ok THEN step1 ELSE
    LET step2 == push_down_limit(into_inner(step1)) IN
    IF ~step2.ok THEN step2 ELSE
    remove_redundant_projection(into_inner(step2))

(***************************************************************************)
(* The functions handed to the traversals.  A function is described by     *)
(* the rule it applies and by the variant (if any) on which it fails;      *)
(* besides the three rules and the chained closure of main() there are     *)
(* the closure |n| Ok(No(n.clone())) and one that answers Yes everywhere.  *)
(***************************************************************************)
RuleNames ==
    {"combine_filters", "push_down_limit", "remove_redundant_projection",
     "chained_rules", "identity", "always_yes"}

NonFailing == [rule : RuleNames, failTag : {"none"}]

Failing == [rule : {"always_yes"}, failTag : Tags]

Functions == NonFailing \cup Failing

FailureOf(n) == Err([msg |-> "rule failed", at |-> n])

(* one invocation of the function described by fn on node n *)
Apply(fn, n) ==
    IF n.tag = fn.failTag THEN FailureOf(n)
    ELSE CASE fn.rule = "combine_filters" -> combine_filters(n)
           [] fn.rule = "push_down_limit" -> push_down_limit(n)
           [] fn.rule = "remove_redundant_projection" ->
                  remove_redundant_projection(n)
           [] fn.rule = "chained_rules" -> chained_rules(n)
           [] fn.rule = "identity" -> No(n)
           [] fn.rule = "always_yes" -> Yes(n)

(* A traversal's outcome: its result and the invocations of f it made. *)
Outcome(r, cs) == [res |-> r, calls |-> cs]

Invocation(pos, n) == [pos |-> pos, arg |-> n]

(* The closures the traversals pass down: f itself, |node|               *)
(* node.transform(&f), or |child| child.transform_down(&f).               *)
Closure(kind, fn, pos) == [kind |-> kind, fn |-> fn, pos |-> pos]

RECURSIVE Call(_, _, _)
RECURSIVE apply_children(_, _)
RECURSIVE map_children(_, _)
RECURSIVE transform(_, _, _)
RECURSIVE transform_down(_, _, _)

(* rebuild a one-child node around a new input, its other fields kept *)
WithInput(self, in) == [self EXCEPT !.input = in]

(* a TableScan arm that reports the leaf as transformed *)
apply_children_leaf_yes(self) == Outcome(Yes(self), <<>>)

(* apply_children, TableScan arm *)
apply_children_leaf(self) == Outcome(No(self), <<>>)

(* apply_children, Filter / Projection / Limit arm, once f(input) is Ok *)
apply_children_unary(self, transformed_input) ==
    IF was_transformed(transformed_input.res)
    THEN Outcome(Yes(WithInput(self, into_inner(transformed_input.res))),
                 transformed_input.calls)
    ELSE Outcome(No(self), transformed_input.calls)

(* a Join arm that looks at the flag of the left child only *)
apply_children_join_left_only(self, transformed_left, transformed_right) ==
    LET cs == transformed_left.calls \o transformed_right.calls IN
    IF was_transformed(transformed_left.res)
    THEN Outcome(Yes(Join(into_inner(transformed_left.res),
                          into_inner(transformed_right.res),
                          self.join_type, self.on)), cs)
    ELSE Outcome(No(self), cs)

(* apply_children, Join arm, once f(left) and f(right) are Ok *)
apply_children_join(self, transformed_left, transformed_right) ==
    LET cs == transformed_left.calls \o transformed_right.calls IN
    IF was_transformed(transformed_left.res)
       \/ was_transformed(transformed_right.res)
    THEN Outcome(Yes(Join(into_inner(transformed_left.res),
                          into_inner(transformed_right.res),
                          self.join_type, self.on)), cs)
    ELSE Outcome(No(self), cs)

(* apply_children whose Join arm calls f on both children before it       *)
(* looks at the result of the left one                                     *)
apply_children_eager(self, g) ==
    IF self.tag = "TableScan" THEN apply_children_leaf(self)
    ELSE IF self.tag = "Join"
    THEN LET transformed_left == Call(g, self.left, 1)
             transformed_right == Call(g, self.right, 2)
             cs == transformed_left.calls \o transformed_right.calls
         IN  IF ~transformed_left.res.ok THEN Outcome(transformed_left.res, cs)
             ELSE IF ~transformed_right.res.ok
             THEN Outcome(transformed_right.res, cs)
             ELSE apply_children_join(self, transformed_left, transformed_right)
    ELSE LET transformed_input == Call(g, self.input, 1) IN
         IF ~transformed_input.res.ok THEN transformed_input
         ELSE apply_children_unary(self, transformed_input)

apply_children(self, g) ==
    IF self.tag = "TableScan" THEN apply_children_leaf(self)
    ELSE IF self.tag = "Join"
    THEN LET transformed_left == Call(g, self.left, 1) IN
         IF ~transformed_left.res.ok THEN transformed_left ELSE
         LET transformed_right == Call(g, self.right, 2) IN
         IF ~transformed_right.res.ok
         THEN Outcome(transformed_right.res,
                      transformed_left.calls \o transformed_right.calls)
         ELSE apply_children_join(self, transformed_left, transformed_right)
    ELSE LET transformed_input == Call(g, self.input, 1) IN
         IF ~transformed_input.res.ok THEN transformed_input
         ELSE apply_children_unary(self, transformed_input)

(* map_children, TableScan arm *)
map_children_leaf(self) == Outcome(No(self), <<>>)

(* map_children, Filter / Projection / Limit arm, once f(input) is Ok *)
map_children_unary(self, transformed_input) ==
    IF was_transformed(transformed_input.res)
    THEN Outcome(Yes(WithInput(self, into_inner(transformed_input.res))),
                 transformed_input.calls)
    ELSE Outcome(No(WithInput(self, into_inner(transformed_input.res))),
                 transformed_input.calls)

(* map_children, Join arm, once f(left) and f(right) are Ok *)
map_children_join(self, transformed_left, transformed_right) ==
    LET cs == transformed_left.calls \o transformed_right.calls
        rebuilt == Join(into_inner(transformed_left.res),
                        into_inner(transformed_right.res),
                        self.join_type, self.on)
    IN  IF was_transformed(transformed_left.res)
           \/ was_transformed(transformed_right.res)
        THEN Outcome(Yes(rebuilt), cs)
        ELSE Outcome(No(rebuilt), cs)

map_children(self, g) ==
    IF self.tag = "TableScan" THEN map_children_leaf(self)
    ELSE IF self.tag = "Join"
    THEN LET transformed_left == Call(g, self.left, 1) IN
         IF ~transformed_left.res.ok THEN transformed_left ELSE
         LET transformed_right == Call(g, self.right, 2) IN
         IF ~transformed_right.res.ok
         THEN Outcome(transformed_right.res,
                      transformed_left.calls \o transformed_right.calls)
         ELSE map_children_join(self, transformed_left, transformed_right)
    ELSE LET transformed_input == Call(g, self.input, 1) IN
         IF ~transformed_input.res.ok THEN transformed_input
         ELSE map_children_unary(self, transformed_input)

(* a transform that applies f to the node before it visits the children *)
transform_node_first(self, fn, pos) ==
    LET transformed_node == Apply(fn, self)
        first == <<Invocation(pos, self)>>
    IN  IF ~transformed_node.ok THEN Outcome(transformed_node, first) ELSE
        LET rest == apply_children(into_inner(transformed_node),
                                   Closure("transform", fn, pos))
        IN  Outcome(rest.res, first \o rest.calls)

(* a transform that reports Yes whatever f answered *)
transform_always_yes(self, fn, pos) ==
    LET transformed_children ==
            apply_children(self, Closure("transform", fn, pos))
    IN  IF ~transformed_children.res.ok THEN transformed_children ELSE
        LET node == into_inner(transformed_children.res)
            verdict == Apply(fn, node)
        IN  Outcome(IF verdict.ok THEN Yes(into_inner(verdict)) ELSE verdict,
                    Append(transformed_children.calls, Invocation(pos, node)))

(* post-order: the children first, then f on the interim node *)
transform(self, fn, pos) ==
    LET transformed_children ==
            apply_children(self, Closure("transform", fn, pos))
    IN  IF ~transformed_children.res.ok THEN transformed_children ELSE
        LET node == into_inner(transformed_children.res)
        IN  Outcome(Apply(fn, node),
                    Append(transformed_children.calls, Invocation(pos, node)))

(* a transform_down that keeps f's own verdict in the returned flag *)
transform_down_keeps_verdict(self, fn, pos) ==
    LET transformed_node == Apply(fn, self)
        first == <<Invocation(pos, self)>>
    IN  IF ~transformed_node.ok THEN Outcome(transformed_node, first) ELSE
        LET node == into_inner(transformed_node)
            rest == map_children(node, Closure("transform_down", fn, pos))
        IN  IF rest.res.ok /\ was_transformed(transformed_node)
            THEN Outcome(Yes(into_inner(rest.res)), first \o rest.calls)
            ELSE Outcome(rest.res, first \o rest.calls)

(* pre-order: f on the node first, then the children of what f produced *)
transform_down(self, fn, pos) ==
    LET transformed_node == Apply(fn, self)
        first == <<Invocation(pos, self)>>
    IN  IF ~transformed_node.ok THEN Outcome(transformed_node, first) ELSE
        LET node == into_inner(transformed_node)
            rest == map_children(node, Closure("transform_down", fn, pos))
        IN  Outcome(rest.res, first \o rest.calls)

(* the closure g invoked on the i-th child *)
Call(g, child, i) ==
    CASE g.kind = "direct" ->
             Outcome(Apply(g.fn, child),
                     <<Invocation(Append(g.pos, i), child)>>)
      [] g.kind = "transform" -> transform(child, g.fn, Append(g.pos, i))
      [] g.kind = "transform_down" ->
             transform_down(child, g.fn, Append(g.pos, i))

(***************************************************************************)
(* The state: the plan the caller holds, and the operation applied to it   *)
(* with its function (for apply_children and map_children also the kind    *)
(* of closure built around it), its result and the invocations of f it     *)
(* made.  As in main(), the plan a successful pass returns is unwrapped    *)
(* and becomes the input of the next pass.                                 *)
(***************************************************************************)
NoFunction == [rule |-> "identity", failTag |-> "none"]

(* the closures apply_children is called with: any f itself, or the one  *)
(* transform builds around a rule                                         *)
BorrowingClosures ==
    {Closure("direct", fn, <<>>) : fn \in Functions}
    \cup {Closure("transform", fn, <<>>) : fn \in NonFailing}

(* the closures map_children is called with: any f itself, or the one    *)
(* transform_down builds around a rule                                    *)
OwningClosures ==
    {Closure("direct", fn, <<>>) : fn \in Functions}
    \cup {Closure("transform_down", fn, <<>>) : fn \in NonFailing}

Init ==
    /\ plan \in Plans
    /\ op = "none"
    /\ closure = "direct"
    /\ f = NoFunction
    /\ res = No(plan)
    /\ calls = <<>>

Record(o, kind, fn, out) ==
    /\ op = "none"
    /\ op' = o
    /\ closure' = kind
    /\ f' = fn
    /\ res' = out.res
    /\ calls' = out.calls
    /\ UNCHANGED plan

(* OptimizationRule::<rule>(&plan), applied to the node alone *)
ApplyRule ==
    \E fn \in NonFailing :
        Record("rule", "direct", fn,
               Outcome(Apply(fn, plan), <<Invocation(<<>>, plan)>>))

ApplyChildren ==
    \E g \in BorrowingClosures :
        Record("apply_children", g.kind, g.fn, apply_children(plan, g))

MapChildren ==
    \E g \in OwningClosures :
        Record("map_children", g.kind, g.fn, map_children(plan, g))

Transform ==
    \E fn \in Functions :
        Record("transform", "direct", fn, transform(plan, fn, <<>>))

TransformDown ==
    \E fn \in Functions :
        Record("transform_down", "direct", fn, transform_down(plan, fn, <<>>))

(* optimized.into_inner() handed to the next pass *)
NextPass ==
    /\ op \in {"transform", "transform_down"}
    /\ res.ok
    /\ plan' = into_inner(res)
    /\ op' = "none"
    /\ closure' = "direct"
    /\ f' = NoFunction
    /\ res' = No(plan')
    /\ calls' = <<>>

Next ==
    \/ ApplyRule
    \/ ApplyChildren
    \/ MapChildren
    \/ Transform
    \/ TransformDown
    \/ NextPass

Spec == Init /\ [][Next]_vars

(***************************************************************************)
(* What the properties below are stated with                               *)
(***************************************************************************)
Children(n) ==
    IF n.tag = "TableScan" THEN <<>>
    ELSE IF n.tag = "Join" THEN <<n.left, n.right>>
    ELSE <<n.input>>

(* a node with its children replaced and every other field kept *)
WithChildren(n, kids) ==
    IF n.tag = "TableScan" THEN n
    ELSE IF n.tag = "Join" THEN [n EXCEPT !.left = kids[1], !.right = kids[2]]
    ELSE [n EXCEPT !.input = kids[1]]

(* the reference bottom-up rewrite: a node is rebuilt from its rewritten   *)
(* children and then passed to the function                                *)
RECURSIVE BottomUp(_, _)
BottomUp(n, fn) ==
    LET kids == Children(n)
    IN  Apply(fn, WithChildren(n, [i \in 1..Len(kids) |->
                                       into_inner(BottomUp(kids[i], fn))]))

(* the positions of a tree in post-order, left subtree before right *)
RECURSIVE PostOrder(_, _)
PostOrder(n, pos) ==
    IF n.tag = "TableScan" THEN <<pos>>
    ELSE IF n.tag = "Join"
    THEN PostOrder(n.left, Append(pos, 1)) \o PostOrder(n.right, Append(pos, 2))
         \o <<pos>>
    ELSE PostOrder(n.input, Append(pos, 1)) \o <<pos>>

RECURSIVE HasFilterOverFilter(_)
HasFilterOverFilter(n) ==
    \/ n.tag = "Filter" /\ n.input.tag = "Filter"
    \/ \E i \in 1..Len(Children(n)) : HasFilterOverFilter(Children(n)[i])

RECURSIVE Depth(_)
Depth(n) ==
    IF n.tag = "TableScan" THEN 1
    ELSE IF n.tag = "Join"
    THEN 1 + (IF Depth(n.left) > Depth(n.right) THEN Depth(n.left)
              ELSE Depth(n.right))
    ELSE 1 + Depth(n.input)

(* the trigger of remove_redundant_projection as the specification words it *)
IsRedundantProjection(p) ==
    /\ p.tag = "Projection"
    /\ p.input.tag = "TableScan"
    /\ \A i \in 1..Len(p.expressions) : p.expressions[i].tag = "Column"
    /\ [i \in 1..Len(p.expressions) |-> p.expressions[i].name]
           = p.input.projected_columns

TheRules == {"combine_filters", "push_down_limit", "remove_redundant_projection"}

Rule(name) == [rule |-> name, failTag |-> "none"]

(* what each invocation of f returned, and the invocations that failed *)
Returned(i) == Apply(f, calls[i].arg)

FailedCalls == {i \in 1..Len(calls) : ~Returned(i).ok}

(* what the closure handed to apply_children / map_children returns for    *)
(* the i-th child of the plan                                              *)
ChildResult(i) == Call(Closure(closure, f, <<>>), Children(plan)[i], i).res

(***************************************************************************)
(* C1: the plan transform(root, f) returns for a non-failing rule f        *)
(* equals the reference bottom-up rewrite, so that a rewrite made at any   *)
(* depth is present in it.  Stated for the three rules of the catalog,     *)
(* each of which returns its input unchanged whenever it answers No.       *)
(***************************************************************************)
C1_TransformKeepsEveryRewrite ==
    (op = "transform" /\ f.failTag = "none" /\ f.rule \in TheRules) =>
        /\ res.ok
        /\ into_inner(res) = into_inner(BottomUp(plan, f))

(***************************************************************************)
(* C2: remove_redundant_projection returns Yes(the TableScan child) if     *)
(* and only if the node is a Projection over a TableScan whose             *)
(* expressions are all bare columns naming exactly the scan's columns in   *)
(* order; otherwise it returns No.                                         *)
(***************************************************************************)
C2_RemoveRedundantProjectionIff ==
    (op = "rule" /\ f = Rule("remove_redundant_projection")) =>
        /\ res.ok
        /\ res.yes <=> IsRedundantProjection(plan)
        /\ res.yes => into_inner(res) = plan.input

(***************************************************************************)
(* C3: after one transform pass of combine_filters the result holds no     *)
(* Filter whose input is a Filter, and a second pass over it answers No.   *)
(***************************************************************************)
C3_CombineFiltersIdempotent ==
    (op = "transform" /\ f = Rule("combine_filters")) =>
        /\ res.ok
        /\ ~HasFilterOverFilter(into_inner(res))
        /\ ~was_transformed(transform(into_inner(res), f, <<>>).res)

(***************************************************************************)
(* C4: on a non-leaf node whose children f does not fail on,               *)
(* apply_children and map_children return Yes exactly when f returned Yes  *)
(* for some immediate child; the node returned with Yes has the variant    *)
(* and the non-child fields of the input, and each child is the value f    *)
(* returned for it (for a Join also the child for which f returned No).    *)
(***************************************************************************)
C4_ChildrenFlagAndRebuild ==
    (/\ op \in {"apply_children", "map_children"}
     /\ plan.tag # "TableScan"
     /\ \A i \in 1..Len(Children(plan)) : ChildResult(i).ok) =>
        /\ res.ok
        /\ res.yes <=> \E i \in 1..Len(Children(plan)) : ChildResult(i).yes
        /\ res.yes =>
              into_inner(res) =
                  WithChildren(plan, [i \in 1..Len(Children(plan)) |->
                                          into_inner(ChildResult(i))])

C4_Witness ==
    /\ op = "apply_children"
    /\ plan.tag = "Join"
    /\ res.ok
    /\ ~ChildResult(1).yes
    /\ ChildResult(2).yes
    /\ into_inner(res).right # plan.right

(***************************************************************************)
(* C5: when f fails at a node during transform or transform_down, the      *)
(* call returns that same error and no plan, and the failing invocation    *)
(* is the last one: f is invoked on no later sibling and on no ancestor.   *)
(***************************************************************************)
C5_ErrorShortCircuits ==
    op \in {"transform", "transform_down"} =>
        /\ FailedCalls # {} =>
              /\ FailedCalls = {Len(calls)}
              /\ res = Returned(Len(calls))
              /\ ~res.ok
        /\ FailedCalls = {} => res.ok

C5_Witness ==
    /\ op = "transform"
    /\ plan.tag = "Join"
    /\ ~res.ok
    /\ calls[Len(calls)].pos[1] = 1
    /\ f.failTag # plan.right.tag

(***************************************************************************)
(* C6: transform with the function |n| Ok(No(n.clone())) returns No        *)
(* wrapping a tree equal to the input.                                     *)
(***************************************************************************)
C6_IdentityLaw ==
    (op = "transform" /\ f = Rule("identity")) => res = No(plan)

C6_Witness ==
    /\ op = "transform"
    /\ f = Rule("identity")
    /\ Depth(plan) >= 3
    /\ res = No(plan)

(***************************************************************************)
(* C7: each of the three rules returns Ok on every plan node, and the      *)
(* plan it returns with No is the input node, every field and subtree      *)
(* unchanged.                                                              *)
(***************************************************************************)
C7_RulesTotalAndNoIsInput ==
    (op = "rule" /\ f.rule \in TheRules) =>
        /\ res.ok
        /\ ~res.yes => into_inner(res) = plan

C7_Witness ==
    /\ op = "rule"
    /\ f = Rule("push_down_limit")
    /\ plan.tag = "Limit"
    /\ res = No(plan)

(***************************************************************************)
(* C8: on a TableScan, apply_children and map_children return No with      *)
(* the node unchanged and never invoke f, whatever f would have returned.  *)
(***************************************************************************)
C8_LeafInvariance ==
    (op \in {"apply_children", "map_children"} /\ plan.tag = "TableScan") =>
        /\ res = No(plan)
        /\ calls = <<>>

C8_Witness ==
    /\ op = "apply_children"
    /\ plan.tag = "TableScan"
    /\ ~Apply(f, plan).ok
    /\ res = No(plan)

(***************************************************************************)
(* C9: in a transform pass in which f never fails, f is invoked exactly    *)
(* once for each position of the input tree, in post-order, the left       *)
(* subtree of a Join before its right subtree.                             *)
(***************************************************************************)
C9_PostOrderOncePerNode ==
    (op = "transform" /\ FailedCalls = {}) =>
        [i \in 1..Len(calls) |-> calls[i].pos] = PostOrder(plan, <<>>)

C9_Witness ==
    /\ op = "transform"
    /\ FailedCalls = {}
    /\ plan.tag = "Join"
    /\ plan.left.tag # "TableScan"
    /\ plan.right.tag # "TableScan"
    /\ Len(calls) = 5

(***************************************************************************)
(* C10: a transform_down call that completes without error returns the     *)
(* No variant, also when f returned Yes at some node and the plan          *)
(* changed.                                                                *)
(***************************************************************************)
C10_TransformDownReturnsNo ==
    (op = "transform_down" /\ res.ok) => ~res.yes

C10_Witness ==
    /\ op = "transform_down"
    /\ res.ok
    /\ \E i \in 1..Len(calls) : Returned(i).yes /\ into_inner(Returned(i)) # calls[i].arg
    /\ into_inner(res) # plan

====
